---- MODULE Spec2Model ----
(***************************************************************************)
(* serve.py: a development HTTP server on port 9091 that serves the        *)
(* directory holding serve.py and adds three no-cache header fields in     *)
(* NoCacheHandler.end_headers.  The classes serve.py instantiates          *)
(* (http.server.HTTPServer, SimpleHTTPRequestHandler and their bases in    *)
(* socketserver) are modelled method by method as serve.py runs them.      *)
(*                                                                         *)
(* A Python str is a sequence of one-character strings, so that split,     *)
(* startswith, unquote and normpath are computed on the characters.        *)
(***************************************************************************)
EXTENDS Integers, Sequences, FiniteSets, TLC

(* ------------------------------------------------------------------ *)
(* Bounds of the model                                                 *)
(* ------------------------------------------------------------------ *)
MaxConn == 3      \* client connections attempted in one run
MaxClock == 1     \* seconds the server's clock advances in one run

(* ------------------------------------------------------------------ *)
(* str operations                                                      *)
(* ------------------------------------------------------------------ *)
NUL == "NUL"      \* the character chr(0)

Digits == {"0", "1", "2", "3", "4", "5", "6", "7", "8", "9"}

DigitVal(c) ==
    CASE c = "0" -> 0 [] c = "1" -> 1 [] c = "2" -> 2 [] c = "3" -> 3
      [] c = "4" -> 4 [] c = "5" -> 5 [] c = "6" -> 6 [] c = "7" -> 7
      [] c = "8" -> 8 [] c = "9" -> 9

HexDigits == Digits \cup {"a", "b", "c", "d", "e", "f"}

HexVal(c) ==
    CASE c \in Digits -> DigitVal(c)
      [] c = "a" -> 10 [] c = "b" -> 11 [] c = "c" -> 12
      [] c = "d" -> 13 [] c = "e" -> 14 [] c = "f" -> 15

\* chr(n) for the code points the modelled requests can encode.
Chr(n) ==
    CASE n = 0 -> NUL
      [] n = 46 -> "."
      [] n = 47 -> "/"
      [] n = 102 -> "f"
      [] OTHER -> "?"

startswith(s, p) ==
    /\ Len(p) <= Len(s)
    /\ SubSeq(s, 1, Len(p)) = p

endswith(s, p) ==
    /\ Len(p) <= Len(s)
    /\ SubSeq(s, Len(s) - Len(p) + 1, Len(s)) = p

Drop(s, n) == SubSeq(s, n + 1, Len(s))

\* index of the first occurrence of character c in s, 0 when absent
RECURSIVE FindFrom(_, _, _)
FindFrom(s, c, i) ==
    IF i > Len(s) THEN 0
    ELSE IF s[i] = c THEN i
    ELSE FindFrom(s, c, i + 1)

Find(s, c) == FindFrom(s, c, 1)

\* s.split(c): every piece between occurrences of c, empty pieces kept
RECURSIVE SplitOn(_, _)
SplitOn(s, c) ==
    LET i == Find(s, c) IN
    IF i = 0 THEN <<s>>
    ELSE <<SubSeq(s, 1, i - 1)>> \o SplitOn(Drop(s, i), c)

\* s.split(c, 1)
SplitOnce(s, c) ==
    LET i == Find(s, c) IN
    IF i = 0 THEN <<s>>
    ELSE <<SubSeq(s, 1, i - 1), Drop(s, i)>>

\* s.split(): pieces between runs of whitespace, no empty piece
SplitWords(s) == SelectSeq(SplitOn(s, " "), LAMBDA w : w # <<>>)

\* sep.join(parts)
RECURSIVE JoinWith(_, _)
JoinWith(parts, sep) ==
    IF parts = <<>> THEN <<>>
    ELSE IF Len(parts) = 1 THEN parts[1]
    ELSE parts[1] \o sep \o JoinWith(Tail(parts), sep)

\* s.lstrip('/')
RECURSIVE LStripSlash(_)
LStripSlash(s) ==
    IF s # <<>> /\ s[1] = "/" THEN LStripSlash(Tail(s)) ELSE s

\* s.rstrip(): trailing whitespace removed
RECURSIVE RStrip(_)
RStrip(s) ==
    IF s # <<>> /\ s[Len(s)] = " " THEN RStrip(SubSeq(s, 1, Len(s) - 1)) ELSE s

isdigit(s) == s # <<>> /\ \A i \in 1..Len(s) : s[i] \in Digits

\* int(s) for a string of decimal digits
RECURSIVE int(_)
int(s) ==
    IF s = <<>> THEN 0
    ELSE 10 * int(SubSeq(s, 1, Len(s) - 1)) + DigitVal(s[Len(s)])

\* urllib.parse.unquote: every %XX with two hex digits becomes chr(0xXX)
RECURSIVE unquote(_)
unquote(s) ==
    IF s = <<>> THEN <<>>
    ELSE IF /\ s[1] = "%"
            /\ Len(s) >= 3
            /\ s[2] \in HexDigits
            /\ s[3] \in HexDigits
         THEN <<Chr(16 * HexVal(s[2]) + HexVal(s[3]))>> \o unquote(Drop(s, 3))
    ELSE <<s[1]>> \o unquote(Tail(s))

\* the loop of posixpath.normpath over the components
RECURSIVE NormComps(_, _, _)
NormComps(comps, new_comps, initial_slashes) ==
    IF comps = <<>> THEN new_comps
    ELSE LET comp == Head(comps) IN
         IF comp = <<>> \/ comp = <<".">>
         THEN NormComps(Tail(comps), new_comps, initial_slashes)
         ELSE IF \/ comp # <<".", ".">>
                 \/ (initial_slashes = 0 /\ new_comps = <<>>)
                 \/ (new_comps # <<>> /\ new_comps[Len(new_comps)] = <<".", ".">>)
         THEN NormComps(Tail(comps), Append(new_comps, comp), initial_slashes)
         ELSE IF new_comps # <<>>
         THEN NormComps(Tail(comps), SubSeq(new_comps, 1, Len(new_comps) - 1),
                        initial_slashes)
         ELSE NormComps(Tail(comps), new_comps, initial_slashes)

\* posixpath.normpath
normpath(path) ==
    IF path = <<>> THEN <<".">>
    ELSE LET initial_slashes ==
                 IF ~startswith(path, <<"/">>) THEN 0
                 ELSE IF startswith(path, <<"/", "/">>)
                         /\ ~startswith(path, <<"/", "/", "/">>) THEN 2
                 ELSE 1
             joined == JoinWith(NormComps(SplitOn(path, "/"), <<>>, initial_slashes),
                                <<"/">>)
             result == IF initial_slashes = 2 THEN <<"/", "/">> \o joined
                       ELSE IF initial_slashes = 1 THEN <<"/">> \o joined
                       ELSE joined
         IN IF result = <<>> THEN <<".">> ELSE result

\* posixpath.join(a, b)
join(a, b) ==
    IF startswith(b, <<"/">>) THEN b
    ELSE IF a = <<>> \/ endswith(a, <<"/">>) THEN a \o b
    ELSE a \o <<"/">> \o b

\* posixpath.dirname(p): everything up to the last '/', trailing '/' stripped
\* unless the head is all slashes
RECURSIVE RStripSlash(_)
RStripSlash(s) ==
    IF s # <<>> /\ s[Len(s)] = "/" THEN RStripSlash(SubSeq(s, 1, Len(s) - 1)) ELSE s

RECURSIVE LastSlash(_, _)
LastSlash(s, i) ==
    IF i = 0 THEN 0 ELSE IF s[i] = "/" THEN i ELSE LastSlash(s, i - 1)

dirname(p) ==
    LET i == LastSlash(p, Len(p))
        head == SubSeq(p, 1, i)
    IN IF head # <<>> /\ RStripSlash(head) # <<>> THEN RStripSlash(head) ELSE head

\* posixpath.abspath(path) with the process in directory cwd
abspath(path, cwd) ==
    IF startswith(path, <<"/">>) THEN normpath(path) ELSE normpath(join(cwd, path))

(* ------------------------------------------------------------------ *)
(* Literals                                                            *)
(* ------------------------------------------------------------------ *)
SP == <<" ">>
GET == <<"G", "E", "T">>
HEAD == <<"H", "E", "A", "D">>
POST == <<"P", "O", "S", "T">>
HTTP_ == <<"H", "T", "T", "P", "/">>
HTTP09 == HTTP_ \o <<"0", ".", "9">>
HTTP10 == HTTP_ \o <<"1", ".", "0">>
HTTP11 == HTTP_ \o <<"1", ".", "1">>
HTTP20 == HTTP_ \o <<"2", ".", "0">>
HTTPx == HTTP_ \o <<"x">>
curdir == <<".">>
pardir == <<".", ".">>
index_html == <<"i", "n", "d", "e", "x", ".", "h", "t", "m", "l">>
index_htm == <<"i", "n", "d", "e", "x", ".", "h", "t", "m">>

\* the three fields serve.py adds
CacheControlValue == "no-store, no-cache, must-revalidate, max-age=0"
PragmaValue == "no-cache"
ExpiresValue == "0"
Banner == "Serving at http://localhost:9091 (no-cache)"
Port == 9091

(* ------------------------------------------------------------------ *)
(* The file system the process runs on                                 *)
(* ------------------------------------------------------------------ *)
\* serve.py lives in /r; /s is a file outside that directory.
ScriptFile == <<"/", "r", "/", "s", "e", "r", "v", "e", ".", "p", "y">>
ScriptDir == <<"/", "r">>
NoNode == [kind |-> "none", data |-> "", size |-> 0, mtime |-> 0, readable |-> FALSE]
DirNode(listing) ==
    [kind |-> "dir", data |-> listing, size |-> 0, mtime |-> 0, readable |-> TRUE]
FileNode(data, size, mtime, readable) ==
    [kind |-> "file", data |-> data, size |-> size, mtime |-> mtime,
     readable |-> readable]

\* every node, by its components from the file system's root
FSTable ==
    (<<>> :> DirNode("r/ s"))
    @@ (<<<<"r">>>> :> DirNode("d/ f i/ serve.py u"))
    @@ (<<<<"s">>>> :> FileNode("SECRET", 6, 1, TRUE))
    @@ (<<<<"r">>, <<"f">>>> :> FileNode("FOO", 3, 1, TRUE))
    @@ (<<<<"r">>, <<"u">>>> :> FileNode("LOCKED", 6, 1, FALSE))
    @@ (<<<<"r">>, <<"d">>>> :> DirNode(""))
    @@ (<<<<"r">>, <<"i">>>> :> DirNode("index.html"))
    @@ (<<<<"r">>, <<"i">>, index_html>> :> FileNode("INDEX", 5, 1, TRUE))
    @@ (<<<<"r">>, <<"s", "e", "r", "v", "e", ".", "p", "y">>>>
          :> FileNode("SERVE", 5, 1, TRUE))

\* the kernel's walk of a path's components: a name is looked up in a
\* directory, ".." is the parent, and a step from a non-directory fails
RECURSIVE Walk(_, _)
Walk(comps, at) ==
    IF at \notin DOMAIN FSTable THEN <<FALSE, <<>>>>
    ELSE IF comps = <<>> THEN <<TRUE, at>>
    ELSE IF FSTable[at].kind # "dir" THEN <<FALSE, <<>>>>
    ELSE LET c == Head(comps) IN
         IF c = <<>> \/ c = curdir THEN Walk(Tail(comps), at)
         ELSE IF c = pardir
         THEN Walk(Tail(comps), IF at = <<>> THEN at ELSE SubSeq(at, 1, Len(at) - 1))
         ELSE Walk(Tail(comps), Append(at, c))

HasNul(path) == \E i \in 1..Len(path) : path[i] = NUL

\* the node an absolute path string names (stat follows the walk)
Resolve(path) == Walk(SplitOn(path, "/"), <<>>)

Stat(path) ==
    LET r == Resolve(path) IN IF r[1] THEN FSTable[r[2]] ELSE NoNode

\* os.path.isdir / os.path.isfile: False on any error, a NUL included
isdir(path) == ~HasNul(path) /\ Stat(path).kind = "dir"
isfile(path) == ~HasNul(path) /\ Stat(path).kind = "file"

\* open(path, 'rb'): the exception it raises, "" when it opens
OpenError(path) ==
    IF HasNul(path) THEN "ValueError"
    ELSE IF Stat(path).kind # "file" \/ ~Stat(path).readable THEN "OSError"
    ELSE ""


(* ------------------------------------------------------------------ *)
(* The process state                                                   *)
(* ------------------------------------------------------------------ *)
VARIABLES
    pc,        \* where the module body of serve.py is
    file,      \* __file__, as the interpreter was given it
    cwd,       \* the process's working directory
    stdout,    \* lines printed
    portFree,  \* no other process holds port 9091
    listening, \* the server socket is bound and listening
    conn,      \* each client connection's state
    backlog,   \* connections the kernel completed, not yet accepted
    cur,       \* the connection the server is handling, 0 when none
    stage,     \* where the handler of cur is
    h,         \* the handler instance of cur
    peerGone,  \* the client of cur has closed its end
    clock,     \* time.time(), in seconds
    last,      \* the latest exchange that ended without an error
    errSince   \* a request ended in an error after last

vars == <<pc, file, cwd, stdout, portFree, listening, conn, backlog, cur, stage, h,
          peerGone, clock, last, errSince>>

(* ------------------------------------------------------------------ *)
(* What goes over the wire                                             *)
(* ------------------------------------------------------------------ *)
StatusLine(version, code, message) ==
    [kind |-> "status", k |-> version, v |-> message, code |-> code]
Header(keyword, value) == [kind |-> "header", k |-> keyword, v |-> value, code |-> 0]
EndOfHeaders == [kind |-> "end", k |-> "", v |-> "", code |-> 0]
Body(data) == [kind |-> "body", k |-> "", v |-> data, code |-> 0]

\* BaseHTTPRequestHandler.responses[code][0]
Phrase(code) ==
    CASE code = 200 -> "OK"
      [] code = 301 -> "Moved Permanently"
      [] code = 304 -> "Not Modified"
      [] code = 400 -> "Bad Request"
      [] code = 404 -> "Not Found"
      [] code = 414 -> "Request-URI Too Long"
      [] code = 431 -> "Request Header Fields Too Large"
      [] code = 501 -> "Not Implemented"
      [] code = 505 -> "HTTP Version Not Supported"
      [] code = 100 -> "Continue"
      [] OTHER -> "???"

\* ord(c) of the characters version strings are compared on
Ord(c) ==
    CASE c \in Digits -> 48 + DigitVal(c)
      [] c = "." -> 46 [] c = "/" -> 47
      [] c = "H" -> 72 [] c = "P" -> 80 [] c = "T" -> 84 [] c = "x" -> 120
      [] OTHER -> 63

\* a >= b on str
RECURSIVE StrGE(_, _)
StrGE(a, b) ==
    IF b = <<>> THEN TRUE
    ELSE IF a = <<>> THEN FALSE
    ELSE IF Ord(a[1]) # Ord(b[1]) THEN Ord(a[1]) > Ord(b[1])
    ELSE StrGE(Tail(a), Tail(b))

\* keyword.lower() of the header names the handler sends
Lower(keyword) == IF keyword = "Connection" THEN "connection" ELSE keyword

protocol_version == HTTP10
protocol_version_label == "HTTP/1.0"
default_request_version == HTTP09
error_content_type == "text/html;charset=utf-8"
version_string == "SimpleHTTP/0.6 Python/3.11"
date_time_string(t) == "date(" \o ToString(t) \o ")"
ErrorPage(code, message) == "error(" \o ToString(code) \o "," \o message \o ")"
LenOf(data) == "len(" \o data \o ")"

(* ------------------------------------------------------------------ *)
(* BaseHTTPRequestHandler                                              *)
(* ------------------------------------------------------------------ *)
Raised(hh) == hh.exc # ""

\* StreamRequestHandler's wfile is unbuffered: write is sendall on the socket
wfile_write(hh, items) ==
    IF Raised(hh) \/ items = <<>> THEN hh
    ELSE IF peerGone THEN [hh EXCEPT !.exc = "BrokenPipeError"]
    ELSE [hh EXCEPT !.wfile = @ \o items]

send_response_only(hh, code, message) ==
    IF Raised(hh) THEN hh
    ELSE IF hh.request_version # HTTP09
    THEN [hh EXCEPT !.buf = Append(@, StatusLine(protocol_version_label, code, message))]
    ELSE hh

send_header(hh, keyword, value) ==
    IF Raised(hh) THEN hh
    ELSE [hh EXCEPT
             !.buf = IF hh.request_version # HTTP09
                     THEN Append(@, Header(keyword, value))
                     ELSE @,
             !.close_connection =
                 IF Lower(keyword) = "connection" /\ value = "close" THEN TRUE
                 ELSE IF Lower(keyword) = "connection" /\ value = "keep-alive"
                 THEN FALSE
                 ELSE @]

\* self._headers_buffer = [], when the write before it has not raised
clear_buffer(hh) == IF Raised(hh) THEN hh ELSE [hh EXCEPT !.buf = <<>>]

flush_headers(hh) == clear_buffer(wfile_write(hh, hh.buf))

\* BaseHTTPRequestHandler.end_headers, reached by super().end_headers()
base_end_headers(hh) ==
    IF Raised(hh) THEN hh
    ELSE IF hh.request_version # HTTP09
    THEN flush_headers([hh EXCEPT !.buf = Append(@, EndOfHeaders)])
    ELSE hh

\* end_headers with super().end_headers() called before the three send_header
end_headers_late(hh) ==
    send_header(
        send_header(
            send_header(base_end_headers(hh), "Cache-Control", CacheControlValue),
            "Pragma", PragmaValue),
        "Expires", ExpiresValue)

\* NoCacheHandler.end_headers
end_headers(hh) ==
    base_end_headers(
        send_header(
            send_header(
                send_header(hh, "Cache-Control", CacheControlValue),
                "Pragma", PragmaValue),
            "Expires", ExpiresValue))

send_response(hh, code, message) ==
    send_header(
        send_header(send_response_only(hh, code, message), "Server", version_string),
        "Date", date_time_string(clock))

\* log_error() of send_error
log_error(hh, code) == IF Raised(hh) THEN hh ELSE [hh EXCEPT !.log_error = code]

\* the body-describing headers of send_error, for a code that has a body
send_error_headers(hh, body) ==
    send_header(send_header(hh, "Content-Type", error_content_type),
                "Content-Length", LenOf(body))

\* if self.command != 'HEAD' and body: self.wfile.write(body)
send_error_body(hh, body) ==
    IF hh.command # HEAD THEN wfile_write(hh, <<Body(body)>>) ELSE hh

HasBody(code) == code >= 200 /\ code \notin {204, 205, 304}

send_error(hh, code, message) ==
    IF HasBody(code)
    THEN send_error_body(
             end_headers(
                 send_error_headers(
                     send_header(send_response(log_error(hh, code), code, message),
                                 "Connection", "close"),
                     ErrorPage(code, message))),
             ErrorPage(code, message))
    ELSE end_headers(send_header(send_response(log_error(hh, code), code, message),
                                 "Connection", "close"))

\* return True / return False of parse_request and handle_expect_100
returns(hh, value) == [hh EXCEPT !.ret = value]

handle_expect_100(hh) ==
    returns(end_headers(send_response_only(hh, 100, Phrase(100))), TRUE)

\* the version check of parse_request on words[-1]: <<ok, major, minor>>
VersionNumber(version) ==
    IF ~startswith(version, HTTP_) THEN <<FALSE, 0, 0>>
    ELSE LET base_version_number == SplitOnce(version, "/")[2]
             version_number == SplitOn(base_version_number, ".")
         IN IF Len(version_number) # 2 THEN <<FALSE, 0, 0>>
            ELSE IF \E i \in 1..2 : ~isdigit(version_number[i]) THEN <<FALSE, 0, 0>>
            ELSE IF \E i \in 1..2 : Len(version_number[i]) > 10 THEN <<FALSE, 0, 0>>
            ELSE <<TRUE, int(version_number[1]), int(version_number[2])>>

TupleGE(a1, a2, b1, b2) == a1 > b1 \/ (a1 = b1 /\ a2 >= b2)

\* parse_request after the request line: the headers and what follows
\* the Connection and Expect directives of the parsed headers
connection_directive(hh, conntype) ==
    IF conntype = "close" THEN [hh EXCEPT !.close_connection = TRUE]
    ELSE IF conntype = "keep-alive" /\ StrGE(protocol_version, HTTP11)
    THEN [hh EXCEPT !.close_connection = FALSE]
    ELSE hh

expect_directive(hh, expect) ==
    IF /\ expect = "100-continue"
       /\ StrGE(protocol_version, HTTP11)
       /\ StrGE(hh.request_version, HTTP11)
    THEN handle_expect_100(hh)
    ELSE returns(hh, TRUE)

parse_headers(hh, req) ==
    IF req.hdrs.err = "LineTooLong"
    THEN returns(send_error(hh, 431, "Line too long"), FALSE)
    ELSE IF req.hdrs.err = "HTTPException"
    THEN returns(send_error(hh, 431, "Too many headers"), FALSE)
    ELSE expect_directive(
             connection_directive([hh EXCEPT !.headers = req.hdrs],
                                  req.hdrs.connection),
             req.hdrs.expect)

\* parse_request on the words of the request line, hh being the handler
\* after the assignments that open parse_request
parse_words(hh, words, req) ==
    IF Len(words) = 0 THEN hh
    ELSE IF Len(words) >= 3 /\ ~VersionNumber(words[Len(words)])[1]
    THEN send_error(hh, 400, "Bad request version")
    ELSE IF /\ Len(words) >= 3
            /\ TupleGE(VersionNumber(words[Len(words)])[2],
                       VersionNumber(words[Len(words)])[3], 2, 0)
    THEN send_error(hh, 505, "Invalid HTTP version")
    ELSE IF Len(words) > 3
    THEN send_error([hh EXCEPT !.request_version = words[Len(words)]],
                    400, "Bad request syntax")
    ELSE IF Len(words) < 2
    THEN send_error(hh, 400, "Bad request syntax")
    ELSE IF Len(words) = 2 /\ words[1] # GET
    THEN send_error(hh, 400, "Bad HTTP/0.9 request type")
    ELSE parse_headers(
             [hh EXCEPT !.request_version = IF Len(words) = 3 THEN words[3] ELSE @,
                        !.command = words[1],
                        !.path = IF startswith(words[2], <<"/", "/">>)
                                 THEN <<"/">> \o LStripSlash(words[2])
                                 ELSE words[2]],
             req)

\* with protocol_version "HTTP/1.0" no request version turns close_connection
\* off: the test is version_number >= (1, 1) and protocol_version >= "HTTP/1.1"
KeepsOpen(words) ==
    /\ Len(words) >= 3
    /\ VersionNumber(words[Len(words)])[1]
    /\ TupleGE(VersionNumber(words[Len(words)])[2],
               VersionNumber(words[Len(words)])[3], 1, 1)
    /\ StrGE(protocol_version, HTTP11)

parse_request(hh, req) ==
    parse_words([hh EXCEPT !.command = <<>>,
                           !.request_version = default_request_version,
                           !.close_connection = ~KeepsOpen(SplitWords(req.line)),
                           !.ret = FALSE],
                SplitWords(req.line), req)

(* ------------------------------------------------------------------ *)
(* SimpleHTTPRequestHandler                                            *)
(* ------------------------------------------------------------------ *)
RECURSIVE ToStr(_)
ToStr(chars) == IF chars = <<>> THEN "" ELSE chars[1] \o ToStr(Tail(chars))

\* translate_path's loop without the test that skips '.', '..' and words
\* holding a separator
RECURSIVE JoinWordsAll(_, _)
JoinWordsAll(path, words) ==
    IF words = <<>> THEN path
    ELSE JoinWordsAll(join(path, Head(words)), Tail(words))

\* the loop of translate_path over the words of the normalised path
RECURSIVE JoinWords(_, _)
JoinWords(path, words) ==
    IF words = <<>> THEN path
    ELSE LET word == Head(words) IN
         IF dirname(word) # <<>> \/ word = curdir \/ word = pardir
         THEN JoinWords(path, Tail(words))
         ELSE JoinWords(join(path, word), Tail(words))

translate_path(directory, path) ==
    LET p1 == SplitOnce(path, "?")[1]
        p2 == SplitOnce(p1, "#")[1]
        trailing_slash == endswith(RStrip(p2), <<"/">>)
        p3 == normpath(unquote(p2))
        words == SelectSeq(SplitOn(p3, "/"), LAMBDA w : w # <<>>)
        joined == JoinWords(directory, words)
    IN IF trailing_slash THEN joined \o <<"/">> ELSE joined

\* guess_type: the extension's entry in the MIME table, or the default
guess_type(path) ==
    IF endswith(path, <<".", "h", "t", "m", "l">>) THEN "text/html"
    ELSE IF endswith(path, <<".", "p", "y">>) THEN "text/x-python"
    ELSE "application/octet-stream"

NoFile == [open |-> FALSE, data |-> ""]

\* return f: the file object the caller copies from
returns_file(hh, data) ==
    IF Raised(hh) THEN hh ELSE [hh EXCEPT !.f = [open |-> TRUE, data |-> data]]

Listing(hh, path) ==
    "listing(" \o ToStr(unquote(hh.path)) \o ":" \o Stat(path).data \o ")"

list_directory(hh, path) ==
    IF ~Stat(path).readable
    THEN send_error(hh, 404, "No permission to list directory")
    ELSE returns_file(
             end_headers(
                 send_header(
                     send_header(send_response(hh, 200, Phrase(200)),
                                 "Content-type", "text/html; charset=utf-8"),
                     "Content-Length", LenOf(Listing(hh, path)))),
             Listing(hh, path))

\* send_head from the open() on: path names no directory any more
\* f = open(path, 'rb') has succeeded
opened(hh, path) == [hh EXCEPT !.opened = path]

\* send_file with Last-Modified taken from the clock, not from the file
send_file_now(hh, path) ==
    IF endswith(path, <<"/">>) THEN send_error(hh, 404, "File not found")
    ELSE IF OpenError(path) = "OSError" THEN send_error(hh, 404, "File not found")
    ELSE IF OpenError(path) # "" THEN [hh EXCEPT !.exc = OpenError(path)]
    ELSE returns_file(
             end_headers(
                 send_header(
                     send_header(
                         send_header(send_response(opened(hh, path), 200, Phrase(200)),
                                     "Content-type", guess_type(path)),
                         "Content-Length", ToString(Stat(path).size)),
                     "Last-Modified", date_time_string(clock))),
             Stat(path).data)

NotModified(hh, path) ==
    /\ hh.headers.ims.present
    /\ ~hh.headers.inm
    /\ hh.headers.ims.valid
    /\ Stat(path).mtime <= hh.headers.ims.t

send_file(hh, path) ==
    IF endswith(path, <<"/">>) THEN send_error(hh, 404, "File not found")
    ELSE IF OpenError(path) = "OSError" THEN send_error(hh, 404, "File not found")
    ELSE IF OpenError(path) # "" THEN [hh EXCEPT !.exc = OpenError(path)]
    ELSE IF NotModified(hh, path)
    THEN end_headers(send_response(opened(hh, path), 304, Phrase(304)))
    ELSE returns_file(
             end_headers(
                 send_header(
                     send_header(
                         send_header(send_response(opened(hh, path), 200, Phrase(200)),
                                     "Content-type", guess_type(path)),
                         "Content-Length", ToString(Stat(path).size)),
                     "Last-Modified", date_time_string(Stat(path).mtime))),
             Stat(path).data)

\* send_head once translate_path has returned path; parts_path is
\* urlsplit(self.path).path
send_head_at(hh, path, parts_path) ==
    IF isdir(path)
    THEN IF ~endswith(parts_path, <<"/">>)
         THEN end_headers(
                  send_header(
                      send_header(send_response(hh, 301, Phrase(301)),
                                  "Location", ToStr(hh.path) \o "/"),
                      "Content-Length", "0"))
         ELSE IF isfile(join(path, index_html))
         THEN send_file(hh, join(path, index_html))
         ELSE IF isfile(join(path, index_htm))
         THEN send_file(hh, join(path, index_htm))
         ELSE list_directory(hh, path)
    ELSE send_file(hh, path)

send_head(hh) ==
    send_head_at(hh, translate_path(hh.directory, hh.path),
                 SplitOnce(SplitOnce(hh.path, "#")[1], "?")[1])

\* mname = 'do_' + self.command: do_GET and do_HEAD exist and call send_head
dispatch(hh) ==
    IF ~hh.ret \/ Raised(hh) THEN hh
    ELSE IF hh.command # GET /\ hh.command # HEAD
    THEN send_error(hh, 501, "Unsupported method")
    ELSE send_head(hh)

\* handle_one_request up to the return of send_head(); do_GET's copyfile
\* is the step after it
handle_one_request(hh, req) ==
    IF req.long
    THEN send_error([hh EXCEPT !.request_version = <<>>, !.command = <<>>],
                    414, Phrase(414))
    ELSE IF req.eof THEN [hh EXCEPT !.close_connection = TRUE]
    ELSE dispatch(parse_request(hh, req))

\* do_GET without its copyfile
copyfile_skipped(hh) == hh

\* copyfile(f, self.wfile)
copyfile(hh) ==
    IF hh.f.data = "" THEN hh ELSE wfile_write(hh, <<Body(hh.f.data)>>)

(* ------------------------------------------------------------------ *)
(* What clients send                                                   *)
(* ------------------------------------------------------------------ *)
NoIMS == [present |-> FALSE, valid |-> FALSE, t |-> 0]
NoHeaders ==
    [err |-> "", connection |-> "", expect |-> "", ims |-> NoIMS, inm |-> FALSE]

Line3(command, target, version) == command \o SP \o target \o SP \o version
Line2(command, target) == command \o SP \o target

Request(line) == [line |-> line, eof |-> FALSE, long |-> FALSE, hdrs |-> NoHeaders]
WithHeaders(line, hdrs) == [line |-> line, eof |-> FALSE, long |-> FALSE, hdrs |-> hdrs]
\* the client closed without sending a byte
EOFRequest == [line |-> <<>>, eof |-> TRUE, long |-> FALSE, hdrs |-> NoHeaders]
\* a request line of more than 65536 bytes
LongRequest == [line |-> <<>>, eof |-> FALSE, long |-> TRUE, hdrs |-> NoHeaders]

T_f == <<"/", "f">>
T_n == <<"/", "n">>
T_u == <<"/", "u">>
T_d == <<"/", "d">>
T_dslash == <<"/", "d", "/">>
T_islash == <<"/", "i", "/">>
T_fslash == <<"/", "f", "/">>
T_root == <<"/">>
T_up_s == <<"/", ".", ".", "/", "s">>
T_up_f == <<"/", ".", ".", "/", "f">>
T_rel_s == <<".", ".", "/", "s">>
T_enc_s == <<"/", "%", "2", "e", "%", "2", "e", "/", "s">>
T_encslash_s == <<"/", ".", ".", "%", "2", "f", "s">>
T_d_up_up_s == <<"/", "d", "/", ".", ".", "/", ".", ".", "/", "s">>
T_nul == <<"/", "%", "0", "0">>

\* request targets that hold a ".." once unquoted
Traversals == {T_up_s, T_up_f, T_rel_s, T_enc_s, T_encslash_s, T_d_up_up_s}

IMS(t) == [NoHeaders EXCEPT !.ims = [present |-> TRUE, valid |-> TRUE, t |-> t]]

Requests ==
    {Request(Line3(GET, t, HTTP10)) :
        t \in {T_f, T_n, T_u, T_d, T_dslash, T_islash, T_fslash, T_root, T_nul}
              \cup Traversals}
    \cup {Request(Line3(GET, t, HTTP11)) : t \in {T_f, T_n}}
    \cup {Request(Line2(GET, t)) : t \in {T_f, T_n, T_up_s}}
    \cup {Request(Line3(GET, T_f, HTTP09)),
          Request(Line3(GET, T_root, HTTPx)),
          Request(Line3(GET, T_root, HTTP20)),
          Request(GET),
          Request(<<>>),
          Request(Line2(HEAD, T_f)),
          Request(Line3(HEAD, T_f, HTTP10)),
          Request(Line3(HEAD, T_n, HTTP10)),
          Request(Line3(POST, T_n, HTTP10)),
          Request(Line3(POST, T_f, HTTP11)),
          Request(GET \o SP \o T_f \o SP \o <<"b">> \o SP \o HTTP11),
          EOFRequest,
          LongRequest,
          WithHeaders(Line3(GET, T_f, HTTP10), IMS(0)),
          WithHeaders(Line3(GET, T_f, HTTP10), IMS(1)),
          WithHeaders(Line2(GET, T_f), IMS(1)),
          WithHeaders(Line3(GET, T_f, HTTP10), [IMS(1) EXCEPT !.inm = TRUE]),
          WithHeaders(Line3(GET, T_f, HTTP10), [IMS(1) EXCEPT !.ims.valid = FALSE]),
          WithHeaders(Line3(GET, T_f, HTTP11), [NoHeaders EXCEPT !.connection = "keep-alive"]),
          WithHeaders(Line3(GET, T_f, HTTP11), [NoHeaders EXCEPT !.connection = "close"]),
          WithHeaders(Line3(GET, T_f, HTTP11), [NoHeaders EXCEPT !.expect = "100-continue"]),
          WithHeaders(Line3(GET, T_f, HTTP10), [NoHeaders EXCEPT !.err = "LineTooLong"]),
          WithHeaders(Line3(GET, T_f, HTTP10), [NoHeaders EXCEPT !.err = "HTTPException"])}

(* ------------------------------------------------------------------ *)
(* serve.py's module body and socketserver's loop                      *)
(* ------------------------------------------------------------------ *)
request_queue_size == 5

Conns == 1..MaxConn

NoHandler ==
    [request_version |-> <<>>, command |-> <<>>, path |-> <<>>,
     headers |-> NoHeaders, close_connection |-> TRUE, buf |-> <<>>,
     wfile |-> <<>>, directory |-> <<>>, exc |-> "", f |-> NoFile,
     ret |-> FALSE, log_error |-> 0, req |-> EOFRequest, served |-> 0,
     opened |-> <<>>]

\* SimpleHTTPRequestHandler.__init__: directory = os.getcwd(); handle() then
\* starts with close_connection = True
NewHandler == [NoHandler EXCEPT !.directory = cwd]

NoExchange == [set |-> FALSE, req |-> EOFRequest, out |-> <<>>]

\* where the interpreter can have been started, and the __file__ it then has
Launches ==
    {<<ScriptFile, <<"/">>>>,
     <<ScriptFile, ScriptDir>>,
     <<<<"s", "e", "r", "v", "e", ".", "p", "y">>, ScriptDir>>,
     <<<<"r", "/", "s", "e", "r", "v", "e", ".", "p", "y">>, <<"/">>>>}

Init ==
    /\ pc = "chdir"
    /\ \E l \in Launches : file = l[1] /\ cwd = l[2]
    /\ stdout = <<>>
    /\ portFree \in BOOLEAN
    /\ listening = FALSE
    /\ conn = [c \in Conns |-> "new"]
    /\ backlog = <<>>
    /\ cur = 0
    /\ stage = "idle"
    /\ h = NoHandler
    /\ peerGone = FALSE
    /\ clock = 0
    /\ last = NoExchange
    /\ errSince = FALSE

\* serve.py without its chdir: the directory the interpreter was started in
LaunchDirectory == cwd

\* os.chdir(os.path.dirname(os.path.abspath(__file__)))
DocumentRoot == dirname(abspath(file, cwd))

Chdir ==
    /\ pc = "chdir"
    /\ cwd' = DocumentRoot
    /\ pc' = "print"
    /\ UNCHANGED <<file, stdout, portFree, listening, conn, backlog, cur, stage, h,
                   peerGone, clock, last, errSince>>

\* the print placed after serve_forever(), which never returns
PrintBannerLate ==
    /\ pc = "print"
    /\ pc' = "bind"
    /\ UNCHANGED <<file, cwd, stdout, portFree, listening, conn, backlog, cur, stage,
                   h, peerGone, clock, last, errSince>>

\* print("Serving at http://localhost:9091 (no-cache)")
Printed(out) == Append(out, Banner)

PrintBanner ==
    /\ pc = "print"
    /\ stdout' = Printed(stdout)
    /\ pc' = "bind"
    /\ UNCHANGED <<file, cwd, portFree, listening, conn, backlog, cur, stage, h,
                   peerGone, clock, last, errSince>>

\* HTTPServer(('', 9091), NoCacheHandler): server_bind raises OSError when
\* the port is taken, and nothing in serve.py catches it
ServerBind ==
    /\ pc = "bind"
    /\ pc' = IF portFree THEN "activate" ELSE "crashed"
    /\ UNCHANGED <<file, cwd, stdout, portFree, listening, conn, backlog, cur, stage,
                   h, peerGone, clock, last, errSince>>

\* server_activate: socket.listen(request_queue_size); serve_forever() follows
ServerActivate ==
    /\ pc = "activate"
    /\ listening' = TRUE
    /\ pc' = "serve_forever"
    /\ UNCHANGED <<file, cwd, stdout, portFree, conn, backlog, cur, stage, h,
                   peerGone, clock, last, errSince>>

\* a client's connect(): completed by the kernel into the listen queue,
\* taken by another process that holds the port, or refused
ClientConnect(c) ==
    /\ conn[c] = "new"
    /\ IF listening /\ Len(backlog) < request_queue_size
       THEN /\ conn' = [conn EXCEPT ![c] = "queued"]
            /\ backlog' = Append(backlog, c)
       ELSE /\ conn' = [conn EXCEPT ![c] = IF ~portFree THEN "foreign" ELSE "refused"]
            /\ UNCHANGED backlog
    /\ UNCHANGED <<pc, file, cwd, stdout, portFree, listening, cur, stage, h,
                   peerGone, clock, last, errSince>>

ClientHangup ==
    /\ cur # 0
    /\ ~peerGone
    /\ stage \in {"read", "copyfile"}
    /\ peerGone' = TRUE
    /\ UNCHANGED <<pc, file, cwd, stdout, portFree, listening, conn, backlog, cur,
                   stage, h, clock, last, errSince>>

Tick ==
    /\ clock < MaxClock
    /\ clock' = clock + 1
    /\ UNCHANGED <<pc, file, cwd, stdout, portFree, listening, conn, backlog, cur,
                   stage, h, peerGone, last, errSince>>

\* the loop of a server whose process_request starts a thread and returns
InSelectThreaded == pc = "serve_forever"

\* serve_forever is in selector.select(): process_request of HTTPServer runs
\* finish_request in the loop's own thread and returns when the handler has
InSelect == pc = "serve_forever" /\ cur = 0

\* _handle_request_noblock: get_request() accepts the oldest queued
\* connection, finish_request() constructs the handler
GetRequest ==
    /\ InSelect
    /\ backlog # <<>>
    /\ cur' = Head(backlog)
    /\ backlog' = Tail(backlog)
    /\ conn' = [conn EXCEPT ![Head(backlog)] = "handling"]
    /\ h' = NewHandler
    /\ stage' = "read"
    /\ peerGone' = FALSE
    /\ UNCHANGED <<pc, file, cwd, stdout, portFree, listening, clock, last, errSince>>

\* the handler once handle_one_request has taken it from before to hh:
\* do_HEAD closes the file send_head returned
AfterRequest(before, hh) ==
    [hh EXCEPT !.served = IF hh.wfile # before.wfile \/ hh.f.open \/ Raised(hh)
                          THEN @ + 1 ELSE @,
               !.f = IF hh.command = HEAD THEN NoFile ELSE @]

\* where handler hh goes on: do_GET's copyfile, the return, or the except
StageAfter(hh) ==
    IF Raised(hh) THEN "raised"
    ELSE IF hh.f.open THEN "copyfile"
    ELSE "handled"

HandleOneRequest ==
    /\ stage = "read"
    /\ \E req \in Requests :
          h' = AfterRequest(h, handle_one_request([h EXCEPT !.req = req], req))
    /\ stage' = StageAfter(h')
    /\ UNCHANGED <<pc, file, cwd, stdout, portFree, listening, conn, backlog, cur,
                   peerGone, clock, last, errSince>>

CopyFile ==
    /\ stage = "copyfile"
    /\ h' = [copyfile(h) EXCEPT !.f = NoFile]
    /\ stage' = StageAfter(h')
    /\ UNCHANGED <<pc, file, cwd, stdout, portFree, listening, conn, backlog, cur,
                   peerGone, clock, last, errSince>>

\* the exchange ended in an error: send_error was called, an exception was
\* raised, or no request line was there to answer
Failed(hh) == hh.log_error # 0 \/ Raised(hh) \/ SplitWords(hh.req.line) = <<>>

\* the connection of cur is shut down and closed; the loop selects again
CloseCurrent ==
    /\ conn' = [conn EXCEPT ![cur] = "closed"]
    /\ cur' = 0
    /\ stage' = "idle"
    /\ h' = NoHandler
    /\ peerGone' = FALSE
    /\ IF Failed(h)
       THEN /\ errSince' = TRUE
            /\ UNCHANGED last
       ELSE /\ last' = [set |-> TRUE, req |-> h.req, out |-> h.wfile]
            /\ errSince' = FALSE

\* handle(): while not close_connection: handle_one_request(); then
\* finish() and process_request's shutdown_request
FinishRequest ==
    /\ stage = "handled"
    /\ IF h.close_connection
       THEN CloseCurrent
       ELSE /\ stage' = "read"
            /\ UNCHANGED <<conn, cur, h, peerGone, last, errSince>>
    /\ UNCHANGED <<pc, file, cwd, stdout, portFree, listening, backlog, clock>>

\* an except clause that shuts the request down and raises again
HandleErrorRaises ==
    /\ stage = "raised"
    /\ CloseCurrent
    /\ pc' = "crashed"
    /\ listening' = FALSE
    /\ UNCHANGED <<file, cwd, stdout, portFree, backlog, clock>>

\* except Exception: handle_error(); shutdown_request()
HandleError ==
    /\ stage = "raised"
    /\ CloseCurrent
    /\ UNCHANGED <<pc, file, cwd, stdout, portFree, listening, backlog, clock>>

Next ==
    \/ Chdir
    \/ PrintBanner
    \/ ServerBind
    \/ ServerActivate
    \/ \E c \in Conns : ClientConnect(c)
    \/ ClientHangup
    \/ Tick
    \/ GetRequest
    \/ HandleOneRequest
    \/ CopyFile
    \/ FinishRequest
    \/ HandleError

Spec == Init /\ [][Next]_vars

(* ------------------------------------------------------------------ *)
(* Reading what was written to a client                                *)
(* ------------------------------------------------------------------ *)
CacheControlField == Header("Cache-Control", CacheControlValue)
PragmaField == Header("Pragma", PragmaValue)
ExpiresField == Header("Expires", ExpiresValue)

Contains(out, item) == \E i \in 1..Len(out) : out[i] = item

HasNoCacheFields(out) ==
    /\ Contains(out, CacheControlField)
    /\ Contains(out, PragmaField)
    /\ Contains(out, ExpiresField)

\* the code of the status line, 0 when none was written
StatusOf(out) == IF out # <<>> /\ out[1].kind = "status" THEN out[1].code ELSE 0

BodiesOf(out) == SelectSeq(out, LAMBDA x : x.kind = "body")

CountOf(out, keyword) == Len(SelectSeq(out, LAMBDA x : x.kind = "header" /\ x.k = keyword))

WithoutDate(out) == SelectSeq(out, LAMBDA x : ~(x.kind = "header" /\ x.k = "Date"))

\* the handler of the current connection has returned from its request
Answered == stage = "handled"

\* the words of the request line the current handler read
ReqWords == SplitWords(h.req.line)
ReqTarget == IF Len(ReqWords) >= 2 THEN ReqWords[2] ELSE <<>>
ReqCommand == IF Len(ReqWords) >= 1 THEN ReqWords[1] ELSE <<>>

(* ------------------------------------------------------------------ *)
(* C1  Header universality                                             *)
(* ------------------------------------------------------------------ *)
\* C1: whatever the server writes in answer to a request holds the fields
\* Cache-Control, Pragma and Expires with serve.py's values.
C1_HeaderUniversality ==
    (Answered /\ h.wfile # <<>>) => HasNoCacheFields(h.wfile)

(* ------------------------------------------------------------------ *)
(* C2  Not found                                                       *)
(* ------------------------------------------------------------------ *)
\* C2: a GET for /n, which names nothing under the document root, is
\* answered with a 4xx status line and the three no-cache fields.
C2_NotFound ==
    (Answered /\ ReqCommand = GET /\ ReqTarget = T_n)
        => /\ StatusOf(h.wfile) \in 400..499
           /\ HasNoCacheFields(h.wfile)

(* ------------------------------------------------------------------ *)
(* C9  The injection closes every header block                         *)
(* ------------------------------------------------------------------ *)
\* C9: in every header block written to a client the last three fields
\* before the terminating blank line are Cache-Control, Pragma, Expires in
\* that order, and each of the three names occurs exactly once.
C9_InjectionLast ==
    \A i \in 1..Len(h.wfile) :
        h.wfile[i].kind = "end"
            => /\ i >= 5
               /\ h.wfile[i - 3] = CacheControlField
               /\ h.wfile[i - 2] = PragmaField
               /\ h.wfile[i - 1] = ExpiresField
               /\ CountOf(SubSeq(h.wfile, 1, i), "Cache-Control") = 1
               /\ CountOf(SubSeq(h.wfile, 1, i), "Pragma") = 1
               /\ CountOf(SubSeq(h.wfile, 1, i), "Expires") = 1
               /\ \A j \in 1..(i - 1) : h.wfile[j].kind \in {"status", "header"}

\* a header block of an error answer and one of a file have been written
C9_Witness ==
    /\ Answered
    /\ StatusOf(h.wfile) = 404
    /\ Contains(h.wfile, EndOfHeaders)
    /\ last.set
    /\ StatusOf(last.out) = 200
    /\ Contains(last.out, EndOfHeaders)

(* ------------------------------------------------------------------ *)
(* C3  Path-traversal containment                                      *)
(* ------------------------------------------------------------------ *)
RootComps == Resolve(ScriptDir)[2]

\* path names a node below the document root
InsideRoot(path) ==
    LET r == Resolve(path) IN
    /\ r[1]
    /\ Len(r[2]) > Len(RootComps)
    /\ SubSeq(r[2], 1, Len(RootComps)) = RootComps

\* what the files outside the document root hold
OutsideData ==
    {FSTable[n].data : n \in {m \in DOMAIN FSTable :
                                 /\ FSTable[m].kind = "file"
                                 /\ ~(Len(m) > Len(RootComps)
                                      /\ SubSeq(m, 1, Len(RootComps)) = RootComps)}}

SameGetAgain ==
    /\ Answered
    /\ last.set
    /\ ~errSince
    /\ h.req = last.req
    /\ ReqCommand = GET

\* C4 as stated: the second answer has the body and every header value of
\* the first, Date included.
C4_IdenticalWithDate == SameGetAgain => h.wfile = last.out

\* C4 as amended: the second answer has the body, the status line and every
\* header value of the first except the value of Date.
C4_IdenticalButDate == SameGetAgain => WithoutDate(h.wfile) = WithoutDate(last.out)

\* the same GET was answered 200 twice, the clock having advanced between
C4_Witness ==
    /\ SameGetAgain
    /\ StatusOf(h.wfile) = 200
    /\ h.wfile # last.out

(* ------------------------------------------------------------------ *)
(* C5  Startup ordering                                                *)
(* ------------------------------------------------------------------ *)
\* C5 as stated: once the line is printed the process has not failed to
\* bind the port.
C5_PrintedImpliesBound == stdout # <<>> => pc # "crashed"

\* C5 as amended: the line is printed exactly once, before the bind and so
\* before any connection is queued or accepted; the socket listens, and a
\* connect succeeds, from server_activate on; a failed bind comes after the
\* line and ends the process.
C5_StartupOrder ==
    /\ pc \in {"chdir", "print"} => stdout = <<>>
    /\ pc \notin {"chdir", "print"} => stdout = <<Banner>>
    /\ \A c \in Conns : conn[c] \in {"queued", "handling", "closed"} => stdout = <<Banner>>
    /\ listening <=> pc = "serve_forever"
    /\ pc = "crashed" => ~portFree

\* the server has printed its line once and served a connection
C5_Witness ==
    /\ stdout = <<Banner>>
    /\ pc = "serve_forever"
    /\ \E c \in Conns : conn[c] = "closed"

(* ------------------------------------------------------------------ *)
(* C6  Error containment                                               *)
(* ------------------------------------------------------------------ *)
\* the request of the current handler ended in a per-request error
PerRequestError ==
    /\ stage \in {"handled", "raised"}
    /\ ~h.req.eof
    /\ Failed(h)

\* C6 as stated: a request that ends in an error gets an error response.
C6_ErrorResponse == PerRequestError => (h.log_error # 0 /\ h.wfile # <<>>)

\* C6 as amended: no request takes the listener out of serve_forever, and a
\* request answered after a failed one is answered as before it; send_error
\* answers with its status when the request version is not HTTP/0.9, while an
\* empty request line and an exception raised while handling get no error
\* response.
C6_Containment ==
    /\ (errSince \/ stage = "raised") => (pc = "serve_forever" /\ listening)
    /\ (Answered /\ last.set /\ errSince /\ h.req = last.req)
           => WithoutDate(h.wfile) = WithoutDate(last.out)
    /\ (Answered /\ h.log_error # 0 /\ h.request_version # HTTP09)
           => (StatusOf(h.wfile) = h.log_error /\ h.log_error >= 400)
    /\ (Answered /\ ~h.req.long /\ ReqWords = <<>>) => h.wfile = <<>>
    /\ stage = "raised" => (StatusOf(h.wfile) < 400 /\ BodiesOf(h.wfile) = <<>>)

\* a request is answered again after a request in between raised an exception
C6_Witness ==
    /\ Answered
    /\ last.set
    /\ errSince
    /\ h.req = last.req
    /\ StatusOf(h.wfile) = 200

(* ------------------------------------------------------------------ *)
(* C7  Document root                                                   *)
(* ------------------------------------------------------------------ *)
\* C7: from the chdir on the working directory is the directory of serve.py,
\* and every handler resolves its paths against that directory.
C7_DocumentRootFixed ==
    /\ pc # "chdir" => cwd = ScriptDir
    /\ cur # 0 => h.directory = ScriptDir

\* started from / as r/serve.py, the server has answered a second request
C7_Witness ==
    /\ file # ScriptFile
    /\ ~startswith(file, <<"s">>)
    /\ Answered
    /\ last.set
    /\ h.directory = ScriptDir

(* ------------------------------------------------------------------ *)
(* C8  Root anchoring                                                  *)
(* ------------------------------------------------------------------ *)
FooNode == FSTable[<<<<"r">>, <<"f">>>>]

\* parse_request accepted a GET for /f
GetFoo == Answered /\ h.ret /\ h.command = GET /\ h.path = T_f

\* the request is conditional and the file is not newer than it asks for
FooNotModified ==
    /\ h.req.hdrs.ims.present
    /\ h.req.hdrs.ims.valid
    /\ ~h.req.hdrs.inm
    /\ h.req.hdrs.ims.t >= FooNode.mtime

\* C8 as stated: a GET for /f is answered 200 with the bytes of f.
C8_Always200 ==
    (GetFoo /\ h.request_version # HTTP09)
        => /\ StatusOf(h.wfile) = 200
           /\ BodiesOf(h.wfile) = <<Body(FooNode.data)>>

\* C8 as amended: a GET for /f is answered with the bytes of f, under status
\* 200 when the request version is not HTTP/0.9 and without status line when
\* it is; unless If-Modified-Since is not before the file's mtime and no
\* If-None-Match is sent: then the answer is 304 without body, and nothing
\* at all for HTTP/0.9.
C8_RootAnchoring ==
    GetFoo =>
        IF FooNotModified
        THEN /\ BodiesOf(h.wfile) = <<>>
             /\ StatusOf(h.wfile) = IF h.request_version # HTTP09 THEN 304 ELSE 0
             /\ h.request_version = HTTP09 => h.wfile = <<>>
        ELSE /\ BodiesOf(h.wfile) = <<Body(FooNode.data)>>
             /\ h.wfile[Len(h.wfile)] = Body(FooNode.data)
             /\ StatusOf(h.wfile) = IF h.request_version # HTTP09 THEN 200 ELSE 0

\* an unconditional GET /f HTTP/1.0 has been answered in full
C8_Witness ==
    /\ GetFoo
    /\ ~FooNotModified
    /\ h.request_version = HTTP10
    /\ StatusOf(h.wfile) = 200
    /\ BodiesOf(h.wfile) = <<Body("FOO")>>

(* ------------------------------------------------------------------ *)
(* C10  Serialised handling                                            *)
(* ------------------------------------------------------------------ *)
Handling == {c \in Conns : conn[c] = "handling"}

\* C10 as stated: the handler of a connection returns having served exactly
\* one request.
C10_ExactlyOne == (Answered /\ ~h.req.eof) => h.served = 1

\* C10 as amended: at most one connection is being handled at any time, a
\* queued connection is accepted only when no other is being handled, and
\* a connection serves at most one request (none when its request line is
\* empty) before it is closed.
C10_Serialised ==
    /\ Cardinality(Handling) <= 1
    /\ Handling = IF cur = 0 THEN {} ELSE {cur}
    /\ cur = 0 <=> stage = "idle"
    /\ \A i \in 1..Len(backlog) : conn[backlog[i]] = "queued"
    /\ h.served <= 1
    /\ stage = "read" => h.served = 0
    /\ Answered => h.close_connection
    /\ (Answered /\ ReqWords = <<>> /\ ~h.req.long) => h.served = 0

\* a connection waits in the listen queue while another is being answered
C10_Witness ==
    /\ Answered
    /\ h.served = 1
    /\ backlog # <<>>

====
